---- MODULE Spec2Model ----
(***************************************************************************)
(* A model of bevy_scrollbar: one scrollable region, its scrollbar (track) *)
(* and the thumb.  The deferred setup commands of the two on_add hooks,    *)
(* the three pointer observers, the `scroll` system they queue, the        *)
(* per-frame systems of lib.rs and the despawn of each of the three        *)
(* entities are actions.  f32 values are exact                             *)
(* rationals extended with +inf, -inf and NaN (IEEE results of a division  *)
(* by zero); rounding is not modelled.                                     *)
(***************************************************************************)
EXTENDS Integers, Sequences, FiniteSets, TLC

\* ------------------------------------------------------------------------
\* Bounds of the model
\* ------------------------------------------------------------------------
\* |ScrollPosition| an input event may reach (caps the unclamped offset)
MaxAbsOffset == 350
\* input events dispatched in one frame before the layout pass
MaxEventsPerFrame == 2
\* consecutive frames without input or geometry change that are counted
MaxQuietFrames == 2
\* regions the per-frame system finds changed in one frame
MaxRegions == 2

\* ------------------------------------------------------------------------
\* f32 arithmetic: [k |-> "fin", n, d] is n/d in lowest terms with d > 0
\* ------------------------------------------------------------------------
Abs(i) == IF i < 0 THEN -i ELSE i

RECURSIVE Gcd(_, _)
Gcd(a, b) == IF b = 0 THEN a ELSE Gcd(b, a % b)

F(n, d) ==
    LET g == Gcd(Abs(n), Abs(d))
        s == IF d < 0 THEN -1 ELSE 1
    IN  [k |-> "fin", n |-> (s * n) \div g, d |-> (s * d) \div g]

I(i) == [k |-> "fin", n |-> i, d |-> 1]
PInf == [k |-> "pinf", n |-> 0, d |-> 1]
NInf == [k |-> "ninf", n |-> 0, d |-> 1]
NaN == [k |-> "nan", n |-> 0, d |-> 1]

IsFin(a) == a.k = "fin"
IsNaN(a) == a.k = "nan"

\* sign of a non-NaN value
Sgn(a) ==
    CASE a.k = "pinf" -> 1
      [] a.k = "ninf" -> -1
      [] OTHER -> IF a.n > 0 THEN 1 ELSE IF a.n < 0 THEN -1 ELSE 0

SignedInf(s) == IF s > 0 THEN PInf ELSE NInf

FNeg(a) ==
    CASE a.k = "fin" -> F(-a.n, a.d)
      [] a.k = "pinf" -> NInf
      [] a.k = "ninf" -> PInf
      [] OTHER -> NaN

FAdd(a, b) ==
    IF IsNaN(a) \/ IsNaN(b) THEN NaN
    ELSE IF IsFin(a) /\ IsFin(b) THEN F(a.n * b.d + b.n * a.d, a.d * b.d)
    ELSE IF IsFin(a) THEN b
    ELSE IF IsFin(b) THEN a
    ELSE IF a.k = b.k THEN a ELSE NaN

FSub(a, b) == FAdd(a, FNeg(b))

FMul(a, b) ==
    IF IsNaN(a) \/ IsNaN(b) THEN NaN
    ELSE IF IsFin(a) /\ IsFin(b) THEN F(a.n * b.n, a.d * b.d)
    ELSE IF Sgn(a) = 0 \/ Sgn(b) = 0 THEN NaN
    ELSE SignedInf(Sgn(a) * Sgn(b))

\* A zero divisor is +0.0: every divisor of the program is a difference of
\* two sizes or a product with the positive inverse scale factor.
FDiv(a, b) ==
    IF IsNaN(a) \/ IsNaN(b) THEN NaN
    ELSE IF IsFin(b) /\ b.n = 0
         THEN IF Sgn(a) = 0 THEN NaN ELSE SignedInf(Sgn(a))
    ELSE IF IsFin(a) /\ IsFin(b) THEN F(a.n * b.d, a.d * b.n)
    ELSE IF IsFin(a) THEN I(0)
    ELSE IF IsFin(b) THEN SignedInf(Sgn(a) * Sgn(b))
    ELSE NaN

\* a < b, false when either is NaN
FLt(a, b) ==
    IF IsNaN(a) \/ IsNaN(b) THEN FALSE
    ELSE IF IsFin(a) /\ IsFin(b) THEN a.n * b.d < b.n * a.d
    ELSE IF a.k = b.k THEN FALSE
    ELSE a.k = "ninf" \/ b.k = "pinf"

FGt(a, b) == FLt(b, a)
FLe(a, b) == ~IsNaN(a) /\ ~IsNaN(b) /\ ~FLt(b, a)

\* f32::min and f32::max return the other operand when one is NaN
FMin(a, b) == IF IsNaN(a) THEN b ELSE IF IsNaN(b) THEN a ELSE IF FLt(b, a) THEN b ELSE a
FMax(a, b) == IF IsNaN(a) THEN b ELSE IF IsNaN(b) THEN a ELSE IF FLt(a, b) THEN b ELSE a

\* f32::clamp(min, max) panics unless min <= max
ClampPanics(lo, hi) == ~FLe(lo, hi)
FClamp(a, lo, hi) == IF IsNaN(a) THEN a ELSE IF FLt(a, lo) THEN lo ELSE IF FGt(a, hi) THEN hi ELSE a

\* ------------------------------------------------------------------------
\* Val and the px() unwrap
\* ------------------------------------------------------------------------
Px(v) == [u |-> "Px", v |-> v]
Percent(v) == [u |-> "Percent", v |-> v]
ValZERO == Px(I(0))

\* px(val) panics for every variant but Val::Px
PxPanics(val) == val.u # "Px"
px(val) == val.v

\* ------------------------------------------------------------------------
\* Program constants and input sets
\* ------------------------------------------------------------------------
\* DragSpeed::DEFAULT
DragSpeedDEFAULT == 4
\* ScrollableScrollScale::DEFAULT
ScrollScaleDEFAULT == 1
\* TextFont::default().font_size and LineHeight::default() = RelativeToFont(1.2)
DefaultFontSize == 20
DefaultLineHeight == [kind |-> "RelativeToFont", v |-> F(6, 5)]

Axes == {"x", "y"}
OverflowAxis == {"Visible", "Scroll"}

\* What the host put on the region before attaching: ScrollSpeed and
\* ScrollableLineHeight are optional components.
NoScrollSpeed == [has |-> FALSE, v |-> 0]
NoLineHeight == [has |-> FALSE, font_size |-> 0, line_height |-> [kind |-> "Px", v |-> I(0)]]
HostConfigs ==
    {[scrollSpeed |-> NoScrollSpeed, lineHeight |-> NoLineHeight],
     [scrollSpeed |-> [has |-> TRUE, v |-> 2],
      lineHeight |-> [has |-> TRUE, font_size |-> 20, line_height |-> [kind |-> "Px", v |-> I(36)]]]}

\* Pointer<Scroll>: unit and y.  The deltas of all inputs are chosen so that
\* every queued scroll is a multiple of 50 logical pixels (a line event of
\* 25/6 lines is 100px at the default line height of 24px).
WheelEvents == {[unit |-> "Pixel", y |-> I(50)], [unit |-> "Pixel", y |-> I(-50)],
                [unit |-> "Line", y |-> F(-25, 6)]}
\* Pointer<Drag>: delta
DragEvents == {[x |-> 0, y |-> 25], [x |-> 25, y |-> -25]}
\* Pointer<Click>: hit position, as fractions of the node hit
NoPos == [has |-> FALSE, x |-> I(0), y |-> I(0)]
HitAt(f) == [has |-> TRUE, x |-> F(1, 2), y |-> f]
ClickEvents ==
    {[target |-> "thumb", pos |-> p] : p \in {NoPos, HitAt(F(1, 2))}} \cup
    {[target |-> "track", pos |-> p] :
        p \in {NoPos, HitAt(F(1, 100)), HitAt(F(99, 100))}}

\* values a host may write to ScrollPosition
HostOffsets == {I(-50), I(250)}

\* Geometry snapshots the layout pass may produce (device pixels):
\* region size and content size, track size and borders, inverse scale factor.
\* Content sizes are positive.  SceneA overflows (its track has borders),
\* SceneFit has content = viewport, SceneSmall content < viewport, SceneHiDpi
\* is SceneA without borders at scale factor 2, SceneHalf is SceneA with
\* half the content.
XY(a, b) == [x |-> a, y |-> b]
Scene0 == [size |-> XY(0, 0), content |-> XY(0, 0), track |-> XY(0, 0),
           blo |-> XY(0, 0), bhi |-> XY(0, 0), isf |-> I(1)]
SceneA == [size |-> XY(200, 100), content |-> XY(200, 400), track |-> XY(20, 420),
           blo |-> XY(5, 10), bhi |-> XY(5, 10), isf |-> I(1)]
SceneFit == [size |-> XY(200, 100), content |-> XY(200, 100), track |-> XY(20, 400),
             blo |-> XY(0, 0), bhi |-> XY(0, 0), isf |-> I(1)]
SceneSmall == [size |-> XY(200, 100), content |-> XY(200, 50), track |-> XY(20, 400),
               blo |-> XY(0, 0), bhi |-> XY(0, 0), isf |-> I(1)]
SceneHiDpi == [size |-> XY(400, 200), content |-> XY(400, 800), track |-> XY(40, 800),
               blo |-> XY(0, 0), bhi |-> XY(0, 0), isf |-> F(1, 2)]
SceneHalf == [size |-> XY(200, 100), content |-> XY(200, 200), track |-> XY(20, 420),
              blo |-> XY(5, 10), bhi |-> XY(5, 10), isf |-> I(1)]
Scenes == {SceneA, SceneFit, SceneSmall, SceneHiDpi, SceneHalf}

\* ------------------------------------------------------------------------
\* State
\* ------------------------------------------------------------------------
VARIABLES
    overflow,       \* Node::overflow of the region: [x, y]
    scrollSpeed,    \* ScrollSpeed of the region, if any
    lineHeight,     \* ScrollableLineHeight of the region, if any
    hasScrollable,  \* the region carries the Scrollable relationship target
    thumb,          \* the thumb: spawned, its Node size [x: width, y: height], margin [x: left, y: top]
    observers,      \* observers registered so far
    cmds,           \* deferred command queue
    offset,         \* ScrollPosition of the region: [x, y]
    scene,          \* ComputedNode of region and track as of the last layout pass
    thumbC,         \* ComputedNode::size of the thumb: [x, y]
    cnodeChanged,   \* Changed<ComputedNode> of the region, as the per-frame system will see it
    posChanged,     \* Changed<ScrollPosition> of the region, as the per-frame system will see it
    phase,          \* "attach", "setup", "layout", "post", "input"
    events,         \* input events dispatched in the current frame
    panicked,       \* a system or command panicked
    attached,       \* how the scrollbar was attached, the target and its overflow then (until the first frame)
    trail,          \* the runs of scroll in the current frame, the last two of them
    ents,           \* which entities exist: the region (with or without a Node) and the scrollbar
    multi,          \* a per-frame pass over several regions: the query's items and what the loop did
    hist,           \* what reached the region since the last per-frame pass, and before that pass
    last            \* the last step taken and what it read

vars == <<overflow, scrollSpeed, lineHeight, hasScrollable, thumb, observers, cmds,
          offset, scene, thumbC, cnodeChanged, posChanged, phase, events, panicked,
          attached, trail, ents, hist, last, multi>>

\* a queued command: its system, the delta it carries, the event it came from
NoStep == [op |-> "none", delta |-> I(0), preOff |-> I(0), preMar |-> ValZERO,
           src |-> "none", target |-> "none", pos |-> NoPos, unit |-> "none", issued |-> 0]
Cmd(c, d) ==
    [c |-> c, delta |-> d, src |-> "none", target |-> "none", pos |-> NoPos, unit |-> "none"]
EventCmd(d, src, target, pos) ==
    [c |-> "scroll", delta |-> d, src |-> src, target |-> target, pos |-> pos,
     unit |-> "none"]

NotAttached ==
    [mode |-> "none", region |-> "none", overflow |-> [x |-> "Visible", y |-> "Visible"]]

\* Overflow::scroll_y()
scroll_y == [x |-> "Visible", y |-> "Scroll"]

\* The axis every handler and system derives from the region's overflow:
\* `if overflow.y == Scroll {..} else if overflow.x == Scroll {..}`
ActiveAxis(ov) ==
    IF ov.y = "Scroll" THEN "y" ELSE IF ov.x = "Scroll" THEN "x" ELSE "none"

\* no thumb entity
NoThumb == [spawned |-> FALSE, axis |-> "none",
            size |-> XY(ValZERO, ValZERO), margin |-> XY(ValZERO, ValZERO)]

\* The entity the host names as `scrollable`: a node, an entity without a
\* Node, or an entity that does not exist.
\* Nothing has reached the region: no event and no host write in this
\* frame (now) or before the last per-frame pass (pass); quiet counts the
\* consecutive frames without input and without geometry change.
NoHist == [now |-> "none", pass |-> "none", quiet |-> 0]
Noted(h, what) ==
    [now |-> IF "host" \in {h.now, what} THEN "host"
             ELSE IF "event" \in {h.now, what} THEN "event" ELSE "none",
     pass |-> "none", quiet |-> 0]

\* no pass over several regions is under way
NoPass == [regs |-> << >>, order |-> << >>, at |-> 0, handler |-> "none",
           queued |-> << >>, written |-> {}, positioned |-> {}, result |-> "none"]

RegionKinds == {"node", "bare", "none"}
RegionAlive == ents.region # "none"
BarAlive == ents.bar \in {"bound", "unbound"}

Init ==
    /\ ents \in [region : RegionKinds, bar : {"none"}]
    /\ overflow \in [Axes -> OverflowAxis]
    /\ ents.region # "node" => overflow = [x |-> "Visible", y |-> "Visible"]
    /\ \E host \in HostConfigs :
        /\ scrollSpeed = host.scrollSpeed
        /\ lineHeight = host.lineHeight
    /\ hasScrollable = FALSE
    /\ thumb = NoThumb
    /\ observers = {}
    /\ cmds = << >>
    /\ offset = XY(I(0), I(0))
    /\ scene = Scene0
    /\ thumbC = XY(I(0), I(0))
    /\ cnodeChanged = TRUE
    /\ posChanged = TRUE
    /\ phase = "attach"
    /\ events = 0
    /\ panicked = FALSE
    /\ attached = NotAttached
    /\ trail = << >>
    /\ hist = NoHist
    /\ last = NoStep
    /\ multi = NoPass

\* ------------------------------------------------------------------------
\* Setup: the on_add hooks and the commands they queue
\* ------------------------------------------------------------------------
DefaultScrollableLineHeight ==
    [has |-> TRUE, font_size |-> DefaultFontSize, line_height |-> DefaultLineHeight]

\* A Scrollbar { scrollable } is inserted on an entity: its on_add hook queues
\* the setup command, then the relationship's insert hook queues the insertion
\* of Scrollable into the target, or the removal of the Scrollbar component
\* when the target does not exist.
AttachScrollbar ==
    /\ phase = "attach"
    /\ cmds' = <<Cmd("spawn_thumb_and_observers", I(0)),
                 IF RegionAlive THEN Cmd("insert_Scrollable", I(0))
                 ELSE Cmd("remove_Scrollbar", I(0))>>
    /\ ents' = [ents EXCEPT !.bar = "bound"]
    /\ phase' = "setup"
    /\ attached' = [mode |-> "insert", region |-> ents.region, overflow |-> overflow]
    /\ last' = [NoStep EXCEPT !.op = "attach"]
    /\ UNCHANGED <<overflow, scrollSpeed, lineHeight, hasScrollable, thumb, observers,
                   offset, scene, thumbC, cnodeChanged, posChanged, events, panicked, trail, hist,
                   multi>>

\* The region is spawned with Scrollable::spawn_one(..): Scrollable (and its
\* required ScrollableLineHeight) is inserted with the region's bundle and its
\* on_add hook queues its command; the scrollbar is spawned next and its
\* on_add hook queues the setup command.
SpawnOneScrollbar ==
    /\ phase = "attach"
    /\ ents.region = "node"
    /\ ents' = [ents EXCEPT !.bar = "bound"]
    /\ hasScrollable' = TRUE
    /\ lineHeight' = IF lineHeight.has THEN lineHeight ELSE DefaultScrollableLineHeight
    /\ cmds' = <<Cmd("configure_overflow_and_wheel_scroll", I(0)),
                 Cmd("spawn_thumb_and_observers", I(0))>>
    /\ phase' = "setup"
    /\ attached' = [mode |-> "spawn_one", region |-> ents.region, overflow |-> overflow]
    /\ last' = [NoStep EXCEPT !.op = "spawn_one"]
    /\ UNCHANGED <<overflow, scrollSpeed, thumb, observers,
                   offset, scene, thumbC, cnodeChanged, posChanged, events, panicked, trail, hist,
                   multi>>

\* phase after a command of the queue has run
AfterCmd(queue) ==
    IF queue # << >> THEN phase
    ELSE IF phase = "setup" THEN "layout" ELSE "input"

\* a variant of ScrollDirection whose default arm is Horizontal
ScrollDirectionDefaultHorizontal(ov) ==
    IF ov.y = "Scroll" THEN "Vertical" ELSE "Horizontal"

\* `match (node.overflow.x, node.overflow.y)` of the setup command
ScrollDirection(ov) ==
    IF ov.y = "Scroll" THEN "Vertical"
    ELSE IF ov.x = "Scroll" THEN "Horizontal"
    ELSE "Vertical"

\* overflow after the match: Overflow::scroll_y() when no axis scrolls
ChosenOverflow(ov) ==
    IF ov.y = "Scroll" \/ ov.x = "Scroll" THEN ov ELSE scroll_y

\* Node of the thumb for a direction: [x: width, y: height]
ThumbNodeSize(direction) ==
    IF direction = "Vertical" THEN XY(Percent(I(100)), ValZERO)
    ELSE XY(ValZERO, Percent(I(100)))

\* a variant of SetupOutcome without the check of the Node of the target
SetupOutcomeIgnoresNode(e) ==
    IF e.region = "none" THEN "no_scrollable"
    ELSE IF e.bar \notin {"bound", "unbound"} THEN "no_scrollbar"
    ELSE "ok"

\* The three `let .. else { warn!(..); return; }` of the setup command: where
\* it stops
SetupOutcome(e) ==
    IF e.region = "none" THEN "no_scrollable"
    ELSE IF e.region = "bare" THEN "no_node"
    ELSE IF e.bar \notin {"bound", "unbound"} THEN "no_scrollbar"
    ELSE "ok"

\* The command queued by the on_add hook of Scrollbar
SetupScrollbarCmd ==
    /\ ~panicked
    /\ cmds # << >>
    /\ Head(cmds).c = "spawn_thumb_and_observers"
    /\ LET direction == ScrollDirection(overflow)
           outcome == SetupOutcome(ents)
       IN
        /\ IF outcome \in {"no_scrollable", "no_node"}
           THEN UNCHANGED <<overflow, lineHeight, observers, thumb>>
           ELSE /\ overflow' = ChosenOverflow(overflow)
                /\ lineHeight' = IF direction = "Vertical" /\ ~lineHeight.has
                                 THEN DefaultScrollableLineHeight ELSE lineHeight
                /\ IF outcome = "no_scrollbar"
                   THEN /\ observers' = observers \cup {"scroll_on_scroll"}
                        /\ UNCHANGED thumb
                   ELSE /\ observers' = observers \cup
                                {"scroll_on_scroll", "scroll_on_drag", "scroll_on_click"}
                        /\ thumb' = [spawned |-> TRUE, axis |-> direction,
                                     size |-> ThumbNodeSize(direction),
                                     margin |-> XY(ValZERO, ValZERO)]
        /\ last' = [NoStep EXCEPT !.op = "spawn_thumb_and_observers", !.src = outcome]
    /\ cmds' = Tail(cmds)
    /\ phase' = AfterCmd(Tail(cmds))
    /\ UNCHANGED <<scrollSpeed, hasScrollable, offset, scene, thumbC,
                   cnodeChanged, posChanged, events, panicked, attached, trail, ents, hist, multi>>

\* The command queued by the relationship hook: Scrollable is inserted into
\* the target with its required components (Node among them), and its on_add
\* hook queues configure_overflow_and_wheel_scroll.
InsertScrollableCmd ==
    /\ ~panicked
    /\ cmds # << >>
    /\ Head(cmds).c = "insert_Scrollable"
    /\ RegionAlive
    /\ hasScrollable' = TRUE
    /\ ents' = [ents EXCEPT !.region = "node"]
    /\ lineHeight' = IF lineHeight.has THEN lineHeight ELSE DefaultScrollableLineHeight
    /\ cmds' = Tail(cmds) \o <<Cmd("configure_overflow_and_wheel_scroll", I(0))>>
    /\ last' = [NoStep EXCEPT !.op = "insert_Scrollable"]
    /\ UNCHANGED <<overflow, scrollSpeed, thumb, observers, offset, scene, thumbC,
                   cnodeChanged, posChanged, phase, events, panicked, attached, trail, hist, multi>>

\* The command queued by the relationship hook when the target does not
\* exist: the Scrollbar component is removed from the scrollbar entity.
RemoveScrollbarCmd ==
    /\ ~panicked
    /\ cmds # << >>
    /\ Head(cmds).c = "remove_Scrollbar"
    /\ ents' = [ents EXCEPT !.bar = IF @ = "bound" THEN "unbound" ELSE @]
    /\ cmds' = Tail(cmds)
    /\ phase' = AfterCmd(Tail(cmds))
    /\ last' = [NoStep EXCEPT !.op = "remove_Scrollbar"]
    /\ UNCHANGED <<overflow, scrollSpeed, lineHeight, hasScrollable, thumb, observers,
                   offset, scene, thumbC, cnodeChanged, posChanged, events, panicked,
                   attached, trail, hist, multi>>

\* The command queued by the on_add hook of Scrollable
ConfigureScrollableCmd ==
    /\ ~panicked
    /\ cmds # << >>
    /\ Head(cmds).c = "configure_overflow_and_wheel_scroll"
    /\ overflow' = scroll_y
    /\ observers' = observers \cup {"scroll_on_wheel"}
    /\ cmds' = Tail(cmds)
    /\ phase' = AfterCmd(Tail(cmds))
    /\ last' = [NoStep EXCEPT !.op = "configure_overflow_and_wheel_scroll"]
    /\ UNCHANGED <<scrollSpeed, lineHeight, hasScrollable, thumb, offset, scene, thumbC,
                   cnodeChanged, posChanged, events, panicked, attached, trail, ents, hist, multi>>

\* ------------------------------------------------------------------------
\* The scroll system (scrollbar.rs), queued by the three observers
\* ------------------------------------------------------------------------
\* track_cnode.size - (track_cnode.border.lo + track_cnode.border.hi + thumb_cnode.size)
TrackScrollLength(scn, tc, a) ==
    FSub(I(scn.track[a]), FAdd(FAdd(I(scn.blo[a]), I(scn.bhi[a])), tc[a]))

\* a variant of ScrolledOffset that adds the delta
ScrolledOffsetAdded(off, scroll) == FAdd(off, scroll)

\* `scrollable_position.offset -= scroll`
ScrolledOffset(off, scroll) == FSub(off, scroll)

\* a variant of ScrolledMargin whose upper bound subtracts the thumb twice
ScrolledMarginThumbTwice(margin, scroll, scn, tc, a) ==
    LET track_scroll_length == TrackScrollLength(scn, tc, a)
        scrollable_scroll_length == FSub(I(scn.size[a]), I(scn.content[a]))
        ratio == FDiv(track_scroll_length, scrollable_scroll_length)
        track_scroll == FMul(ratio, scroll)
        margin_max == FMul(scn.isf, FSub(track_scroll_length, tc[a]))
    IN  Px(FMax(I(0), FMin(margin_max, FAdd(px(margin), track_scroll))))

\* the margin written by scroll: 0f32.max(margin_max.min(px(margin) + track_scroll))
ScrolledMargin(margin, scroll, scn, tc, a) ==
    LET track_scroll_length == TrackScrollLength(scn, tc, a)
        scrollable_scroll_length == FSub(I(scn.size[a]), I(scn.content[a]))
        ratio == FDiv(track_scroll_length, scrollable_scroll_length)
        track_scroll == FMul(ratio, scroll)
        margin_max == FMul(scn.isf, track_scroll_length)
    IN  Px(FMax(I(0), FMin(margin_max, FAdd(px(margin), track_scroll))))

\* the three unwraps at the top of scroll
ScrollUnwrapPanics == ~hasScrollable \/ ~thumb.spawned

ScrollCmd ==
    /\ ~panicked
    /\ cmds # << >>
    /\ Head(cmds).c = "scroll"
    /\ LET cmd == Head(cmds)
           a == ActiveAxis(overflow)
       IN
        /\ last' = [op |-> "scroll", delta |-> cmd.delta,
                    preOff |-> IF a = "none" THEN I(0) ELSE offset[a],
                    preMar |-> IF a = "none" THEN ValZERO ELSE thumb.margin[a],
                    src |-> cmd.src, target |-> cmd.target, pos |-> cmd.pos,
                    unit |-> cmd.unit, issued |-> 0]
        /\ IF ScrollUnwrapPanics \/ (a # "none" /\ PxPanics(thumb.margin[a]))
           THEN /\ panicked' = TRUE
                /\ UNCHANGED <<offset, thumb, posChanged>>
           ELSE IF a = "none"
           THEN UNCHANGED <<offset, thumb, posChanged, panicked>>
           ELSE /\ offset' = [offset EXCEPT ![a] = ScrolledOffset(offset[a], cmd.delta)]
                /\ thumb' = [thumb EXCEPT !.margin[a] =
                                ScrolledMargin(thumb.margin[a], cmd.delta, scene, thumbC, a)]
                /\ posChanged' = TRUE
                /\ UNCHANGED panicked
    /\ LET a == ActiveAxis(overflow)
           run == [delta |-> Head(cmds).delta,
                   preOff |-> IF a = "none" THEN I(0) ELSE offset[a],
                   preMar |-> IF a = "none" THEN ValZERO ELSE thumb.margin[a]]
       IN  trail' = IF trail = << >> THEN <<run>> ELSE <<trail[Len(trail)], run>>
    /\ cmds' = Tail(cmds)
    /\ phase' = AfterCmd(Tail(cmds))
    /\ UNCHANGED <<overflow, scrollSpeed, lineHeight, hasScrollable, observers,
                   scene, thumbC, cnodeChanged, events, attached, ents, hist, multi>>

\* ------------------------------------------------------------------------
\* Input events and their observers
\* ------------------------------------------------------------------------
Registered(o) == o \in observers

\* ScrollableLineHeight::px
LineHeightPx(lh) ==
    IF lh.line_height.kind = "Px" THEN lh.line_height.v
    ELSE FMul(lh.line_height.v, I(lh.font_size))

\* scroll_on_scroll (scrollbar.rs): the delta it queues, << >> when its query fails
scroll_on_scroll(ev) ==
    IF ~scrollSpeed.has THEN << >>
    ELSE LET mouse_scroll == IF ev.unit = "Line" /\ lineHeight.has
                             THEN FMul(ev.y, LineHeightPx(lineHeight))
                             ELSE ev.y
         IN  <<FMul(I(scrollSpeed.v), mouse_scroll)>>

\* scroll_on_wheel (scrollable.rs): the delta it queues, << >> when a query
\* fails.  ScrollableScrollScale was inserted with Scrollable, before the
\* observer was registered, and stays when Scrollable is removed.
scroll_on_wheel(ev) ==
    IF ev.unit = "Line" /\ ~lineHeight.has THEN << >>
    ELSE LET mouse_scroll == IF ev.unit = "Line"
                             THEN FMul(ev.y, LineHeightPx(lineHeight))
                             ELSE ev.y
         IN  <<FMul(I(ScrollScaleDEFAULT), mouse_scroll)>>

\* the deltas queued by the observers watching the region for Pointer<Scroll>
WheelDeltas(obs, ev) ==
    (IF "scroll_on_scroll" \in obs THEN scroll_on_scroll(ev) ELSE << >>)
    \o (IF "scroll_on_wheel" \in obs THEN scroll_on_wheel(ev) ELSE << >>)

RECURSIVE SumF(_)
SumF(ds) == IF ds = << >> THEN I(0) ELSE FAdd(Head(ds), SumF(Tail(ds)))

FAbs(a) == IF Sgn(a) < 0 THEN FNeg(a) ELSE a

\* the queued deltas keep the unclamped offset within the bound of the model
WithinBound(ds) ==
    LET a == ActiveAxis(overflow) IN
    a # "none" => \A i \in 1..Len(ds) :
        FLe(FAbs(FSub(offset[a], SumF(SubSeq(ds, 1, i)))), I(MaxAbsOffset))

CanDispatch ==
    /\ ~panicked
    /\ phase = "input"
    /\ cmds = << >>
    /\ events < MaxEventsPerFrame

EventStep(op, target, pos, queue) ==
    LET a == ActiveAxis(overflow) IN
    [op |-> op, delta |-> IF queue = << >> THEN I(0) ELSE queue[1].delta,
     preOff |-> IF a = "none" THEN I(0) ELSE offset[a],
     preMar |-> IF a = "none" THEN ValZERO ELSE thumb.margin[a],
     src |-> op, target |-> target, pos |-> pos, unit |-> "none", issued |-> Len(queue)]

\* the delta of a Pointer<Scroll>, kept with the commands it queues
WheelDelta(ev) == [has |-> FALSE, x |-> I(0), y |-> ev.y]

Wheel(ev) ==
    /\ CanDispatch
    /\ RegionAlive
    /\ LET ds == WheelDeltas(observers, ev)
           queue == [i \in 1..Len(ds) |->
                        [EventCmd(ds[i], "wheel", "region", WheelDelta(ev))
                            EXCEPT !.unit = ev.unit]]
       IN /\ WithinBound(ds)
          /\ cmds' = queue
          /\ last' = [EventStep("wheel", "region", WheelDelta(ev), queue)
                        EXCEPT !.unit = ev.unit]
    /\ events' = events + 1
    /\ hist' = Noted(hist, "event")
    /\ UNCHANGED <<overflow, scrollSpeed, lineHeight, hasScrollable, thumb, observers,
                   offset, scene, thumbC, cnodeChanged, posChanged, phase, panicked,
                   attached, trail, ents, multi>>

\* scroll_on_drag: the delta it queues
scroll_on_drag(ev) ==
    IF ~thumb.spawned THEN << >>
    ELSE IF overflow.y = "Scroll" THEN <<FMul(I(-DragSpeedDEFAULT), I(ev.y))>>
    ELSE IF overflow.x = "Scroll" THEN <<FMul(I(-DragSpeedDEFAULT), I(ev.x))>>
    ELSE << >>

\* the delta of a Pointer<Drag>, kept with the command it queues
DragDelta(ev) == [has |-> FALSE, x |-> I(ev.x), y |-> I(ev.y)]

Drag(ev) ==
    /\ CanDispatch
    /\ thumb.spawned
    /\ Registered("scroll_on_drag")
    /\ LET ds == scroll_on_drag(ev)
           queue == [i \in 1..Len(ds) |-> EventCmd(ds[i], "drag", "thumb", DragDelta(ev))]
       IN /\ WithinBound(ds)
          /\ cmds' = queue
          /\ last' = EventStep("drag", "thumb", DragDelta(ev), queue)
    /\ events' = events + 1
    /\ hist' = Noted(hist, "event")
    /\ UNCHANGED <<overflow, scrollSpeed, lineHeight, hasScrollable, thumb, observers,
                   offset, scene, thumbC, cnodeChanged, posChanged, phase, panicked,
                   attached, trail, ents, multi>>

\* the page jump of a click on the track: +size when thumb_position > click
ClickScroll(margin, pos, scn, tc, a) ==
    LET track_scroll_length == TrackScrollLength(scn, tc, a)
        margin_max == FMul(scn.isf, track_scroll_length)
        thumb_position == FDiv(px(margin), margin_max)
    IN  IF FGt(thumb_position, pos[a]) THEN I(scn.size[a]) ELSE FNeg(I(scn.size[a]))

\* a variant of StopsPropagation that never stops the click
StopsPropagationNever(target, pos) == FALSE

\* click.propagate(false) when the query for the Scrollbar fails on the target
StopsPropagation(target, pos) == pos.has /\ target # "track"

\* one run of scroll_on_click for the entity the click is at
scroll_on_click(target, pos) ==
    LET a == ActiveAxis(overflow) IN
    IF ~pos.has THEN [stop |-> FALSE, ds |-> << >>, panic |-> FALSE]
    ELSE IF target # "track"
         THEN [stop |-> StopsPropagation(target, pos), ds |-> << >>, panic |-> FALSE]
    ELSE IF ~thumb.spawned \/ a = "none" THEN [stop |-> FALSE, ds |-> << >>, panic |-> FALSE]
    ELSE IF PxPanics(thumb.margin[a]) THEN [stop |-> FALSE, ds |-> << >>, panic |-> TRUE]
    ELSE [stop |-> FALSE, panic |-> FALSE,
          ds |-> <<ClickScroll(thumb.margin[a], pos, scene, thumbC, a)>>]

\* A Pointer<Click> at the thumb or at the track: the observer runs for the
\* target and, unless propagation was stopped, for its parent the track.
Click(target, pos) ==
    /\ CanDispatch
    /\ BarAlive
    /\ target = "thumb" => thumb.spawned
    /\ Registered("scroll_on_click")
    /\ LET first == scroll_on_click(target, pos)
           second == IF target = "thumb" /\ ~first.stop /\ ~first.panic
                     THEN scroll_on_click("track", pos)
                     ELSE [stop |-> FALSE, ds |-> << >>, panic |-> FALSE]
           ds == first.ds \o second.ds
           queue == [i \in 1..Len(ds) |-> EventCmd(ds[i], "click", target, pos)]
       IN /\ WithinBound(ds)
          /\ cmds' = queue
          /\ panicked' = (first.panic \/ second.panic)
          /\ last' = EventStep("click", target, pos, queue)
    /\ events' = events + 1
    /\ hist' = Noted(hist, "event")
    /\ UNCHANGED <<overflow, scrollSpeed, lineHeight, hasScrollable, thumb, observers,
                   offset, scene, thumbC, cnodeChanged, posChanged, phase, attached, trail,
                   ents, multi>>

\* The host writes ScrollPosition of the region directly
HostWrite(v) ==
    /\ ~panicked
    /\ phase = "input"
    /\ cmds = << >>
    /\ events = 0
    /\ last.op # "host_write"
    /\ RegionAlive
    /\ LET a == ActiveAxis(overflow) IN
        /\ a # "none"
        /\ offset' = [offset EXCEPT ![a] = v]
        /\ last' = [NoStep EXCEPT !.op = "host_write", !.delta = v, !.preOff = offset[a],
                                  !.preMar = thumb.margin[a], !.src = "host"]
    /\ posChanged' = TRUE
    /\ hist' = Noted(hist, "host")
    /\ UNCHANGED <<overflow, scrollSpeed, lineHeight, hasScrollable, thumb, observers, cmds,
                   scene, thumbC, cnodeChanged, phase, events, panicked, attached, trail,
                   ents, multi>>

\* ------------------------------------------------------------------------
\* Despawns by the host
\* ------------------------------------------------------------------------
\* The host's systems run between the frames' command flushes, here before
\* the input events of a frame.  The commands queued by a hook are applied
\* right after the command that ran the hook, so no despawn comes between
\* the insertion of Scrollbar and its deferred setup.
CanDespawn == ~panicked /\ phase = "input" /\ cmds = << >> /\ events = 0

\* a variant of LinkedSpawn for a relationship target without linked_spawn
LinkedSpawnUnset(has) == FALSE

\* #[relationship_target(relationship = Scrollbar, linked_spawn)]: the despawn
\* of an entity that carries Scrollable despawns the scrollbar it names
LinkedSpawn(has) == has

\* The region is despawned: its scrollbar goes with it (linked_spawn), the
\* thumb with the scrollbar (Children), the observers with what they watch.
DespawnRegion ==
    /\ CanDespawn
    /\ RegionAlive
    /\ LET cascade == LinkedSpawn(hasScrollable) IN
        /\ ents' = [region |-> "none",
                    bar |-> IF cascade /\ BarAlive THEN "gone" ELSE ents.bar]
        /\ thumb' = IF cascade THEN NoThumb ELSE thumb
        /\ observers' = IF cascade THEN {}
                        ELSE observers \ {"scroll_on_scroll", "scroll_on_wheel"}
        /\ last' = [NoStep EXCEPT !.op = "despawn_region",
                       !.issued = 1 + (IF cascade /\ BarAlive THEN 1 ELSE 0)
                                    + (IF cascade /\ thumb.spawned THEN 1 ELSE 0)]
    /\ hasScrollable' = FALSE
    /\ hist' = Noted(hist, "none")
    /\ UNCHANGED <<overflow, scrollSpeed, lineHeight, cmds, offset, scene, thumbC,
                   cnodeChanged, posChanged, phase, events, panicked, attached, trail, multi>>

\* a variant of SourceRemoved that leaves Scrollable on the region
SourceRemovedKeepsTarget(has) == has

\* Whether the region still carries Scrollable once its scrollbar is gone:
\* the relationship hook of Scrollbar empties the relationship target and
\* removes it; the target entity itself stays.
SourceRemoved(has) == FALSE

\* The scrollbar is despawned: the thumb goes with it (Children), the region
\* stays and loses Scrollable.
DespawnScrollbar ==
    /\ CanDespawn
    /\ BarAlive
    /\ ents' = [ents EXCEPT !.bar = "gone"]
    /\ thumb' = NoThumb
    /\ observers' = observers \ {"scroll_on_drag", "scroll_on_click"}
    /\ hasScrollable' = SourceRemoved(hasScrollable)
    /\ last' = [NoStep EXCEPT !.op = "despawn_scrollbar",
                              !.src = IF hasScrollable THEN "paired" ELSE "unpaired",
                              !.issued = 1 + (IF thumb.spawned THEN 1 ELSE 0)]
    /\ hist' = Noted(hist, "none")
    /\ UNCHANGED <<overflow, scrollSpeed, lineHeight, cmds, offset, scene, thumbC,
                   cnodeChanged, posChanged, phase, events, panicked, attached, trail, multi>>

\* The thumb alone is despawned: the scrollbar loses Children.
DespawnThumb ==
    /\ CanDespawn
    /\ thumb.spawned
    /\ thumb' = NoThumb
    /\ observers' = observers \ {"scroll_on_drag"}
    /\ last' = [NoStep EXCEPT !.op = "despawn_thumb", !.issued = 1]
    /\ hist' = Noted(hist, "none")
    /\ UNCHANGED <<overflow, scrollSpeed, lineHeight, hasScrollable, cmds, offset, scene,
                   thumbC, cnodeChanged, posChanged, phase, events, panicked, attached,
                   trail, ents, multi>>

\* ------------------------------------------------------------------------
\* The frame: layout pass, then the per-frame systems of lib.rs
\* ------------------------------------------------------------------------
\* size the layout pass computes for the thumb from its Node, in device pixels
ThumbComputed(val, scn, a) ==
    IF val.u = "Px" THEN FDiv(val.v, scn.isf)
    ELSE FMul(FDiv(val.v, I(100)), I(scn.track[a] - scn.blo[a] - scn.bhi[a]))

RegionCNode(scn) == <<scn.size, scn.content, scn.isf>>

\* UiSystems::Layout: recomputes every ComputedNode; the region's is flagged
\* as changed when it differs from the previous one.  Without a region the
\* frames that follow change nothing here.
Layout(scn) ==
    /\ ~panicked
    /\ RegionAlive
    /\ phase \in {"layout", "input"}
    /\ cmds = << >>
    /\ scene' = scn
    /\ thumbC' = [a \in Axes |-> ThumbComputed(thumb.size[a], scn, a)]
    /\ cnodeChanged' = (cnodeChanged \/ RegionCNode(scn) # RegionCNode(scene))
    /\ phase' = "post"
    /\ events' = 0
    /\ attached' = NotAttached
    /\ trail' = << >>
    /\ last' = [NoStep EXCEPT !.op = "layout"]
    /\ hist' = [now |-> "none", pass |-> hist.now,
                quiet |-> IF hist.now = "none" /\ ~cnodeChanged
                             /\ RegionCNode(scn) = RegionCNode(scene)
                          THEN IF hist.quiet < MaxQuietFrames THEN hist.quiet + 1
                               ELSE MaxQuietFrames
                          ELSE 0]
    /\ UNCHANGED <<overflow, scrollSpeed, lineHeight, hasScrollable, thumb, observers, cmds,
                   offset, posChanged, panicked, ents, multi>>

\* a variant of ThumbLength with the ratio inverted
ThumbLengthInverted(scn, a) == Percent(FMul(FDiv(I(scn.content[a]), I(scn.size[a])), I(100)))

\* length of the thumb: Val::Percent(size / content_size * 100.0)
ThumbLength(scn, a) == Percent(FMul(FDiv(I(scn.size[a]), I(scn.content[a])), I(100)))

\* a variant of Selected that looks at the geometry only
SelectedOnGeometryOnly(has, cn, pos) == has /\ cn

\* The query of the per-frame system: With<Scrollable> and
\* Or<(Changed<ComputedNode>, Changed<ScrollPosition>)>
Selected(has, cn, pos) == has /\ (cn \/ pos)

\* a variant of WritesLength that recomputes the length in every pass
WritesLengthAlways(cn) == TRUE

\* `if scrollable_cnode.is_changed()`: the thumb length is recomputed only
\* if the content changed, not if it was merely scrolled
WritesLength(cn) == cn

\* update_scroll_position_and_thumb; the step records whether the geometry
\* had changed (issued) and whether the thumb length was written (src)
UpdateScrollPositionAndThumb ==
    /\ ~panicked
    /\ phase = "post"
    /\ cmds = << >>
    /\ LET selected == Selected(hasScrollable, cnodeChanged, posChanged)
           a == ActiveAxis(overflow)
           writes == selected /\ thumb.spawned /\ WritesLength(cnodeChanged) /\ a # "none"
       IN /\ IF selected /\ thumb.spawned
             THEN /\ cmds' = <<Cmd("update_scroll_and_thumb_positions", I(0))>>
                  /\ thumb' = IF writes
                              THEN [thumb EXCEPT !.size[a] = ThumbLength(scene, a)]
                              ELSE thumb
                  /\ phase' = "post"
             ELSE /\ UNCHANGED <<cmds, thumb>>
                  /\ phase' = "input"
          /\ last' = [NoStep EXCEPT !.op = "update_scroll_position_and_thumb",
                                    !.src = IF writes THEN "length_written" ELSE "none",
                                    !.issued = IF cnodeChanged THEN 1 ELSE 0]
    /\ cnodeChanged' = FALSE
    /\ posChanged' = FALSE
    /\ UNCHANGED <<overflow, scrollSpeed, lineHeight, hasScrollable, observers,
                   offset, scene, thumbC, events, panicked, attached, trail, ents, hist, multi>>

\* scroll_length = inverse_scale_factor * (content_size - size)
ScrollLength(scn, a) == FMul(scn.isf, FSub(I(scn.content[a]), I(scn.size[a])))

\* a variant of PositionedMargin that writes the position as a percentage
PositionedMarginPercent(off, scn, tc, a) ==
    LET scroll_length == ScrollLength(scn, a) IN
    IF FLe(scroll_length, I(0)) THEN ValZERO
    ELSE Percent(FMul(FDiv(off, scroll_length), I(100)))

\* the margin written by update_scroll_and_thumb_positions
PositionedMargin(off, scn, tc, a) ==
    LET scroll_length == ScrollLength(scn, a) IN
    IF FLe(scroll_length, I(0)) THEN ValZERO
    ELSE LET ratio == FDiv(off, scroll_length)
             drag_length == FMul(scn.isf, TrackScrollLength(scn, tc, a))
         IN  Px(FMul(ratio, drag_length))

\* a variant of WriteMarksChanged that compares before it marks
WriteMarksChangedIfDifferent(old, new) == old # new

\* `scroll_position.y = ...` goes through DerefMut of Mut<ScrollPosition>,
\* which flags the component as changed whatever the value written
WriteMarksChanged(old, new) == TRUE

\* update_scroll_and_thumb_positions, queued by the per-frame system; the
\* step keeps the record of whether the geometry had changed in this pass
UpdateScrollAndThumbPositionsCmd ==
    /\ ~panicked
    /\ cmds # << >>
    /\ Head(cmds).c = "update_scroll_and_thumb_positions"
    /\ LET a == ActiveAxis(overflow) IN
        /\ last' = [NoStep EXCEPT !.op = "update_scroll_and_thumb_positions",
                                  !.issued = last.issued,
                                  !.preOff = IF a = "none" THEN I(0) ELSE offset[a],
                                  !.preMar = IF a = "none" THEN ValZERO ELSE thumb.margin[a]]
        /\ IF a = "none" \/ ~thumb.spawned \/ ~hasScrollable
           THEN UNCHANGED <<offset, thumb, posChanged, panicked>>
           ELSE IF ClampPanics(I(0), ScrollLength(scene, a))
           THEN /\ panicked' = TRUE
                /\ UNCHANGED <<offset, thumb, posChanged>>
           ELSE LET clamped == FClamp(offset[a], I(0), ScrollLength(scene, a)) IN
                /\ offset' = [offset EXCEPT ![a] = clamped]
                /\ thumb' = [thumb EXCEPT !.margin[a] =
                                PositionedMargin(clamped, scene, thumbC, a)]
                /\ posChanged' = WriteMarksChanged(offset[a], clamped)
                /\ UNCHANGED panicked
    /\ cmds' = Tail(cmds)
    /\ phase' = AfterCmd(Tail(cmds))
    /\ UNCHANGED <<overflow, scrollSpeed, lineHeight, hasScrollable, observers,
                   scene, thumbC, cnodeChanged, events, attached, trail, ents, hist, multi>>

\* ------------------------------------------------------------------------
\* Specification
\* ------------------------------------------------------------------------
Next ==
    \/ AttachScrollbar
    \/ SpawnOneScrollbar
    \/ SetupScrollbarCmd
    \/ InsertScrollableCmd
    \/ ConfigureScrollableCmd
    \/ RemoveScrollbarCmd
    \/ \E ev \in WheelEvents : Wheel(ev)
    \/ \E ev \in DragEvents : Drag(ev)
    \/ \E ev \in ClickEvents : Click(ev.target, ev.pos)
    \/ \E v \in HostOffsets : HostWrite(v)
    \/ DespawnRegion
    \/ DespawnScrollbar
    \/ DespawnThumb
    \/ ScrollCmd
    \/ \E scn \in Scenes : Layout(scn)
    \/ UpdateScrollPositionAndThumb
    \/ UpdateScrollAndThumbPositionsCmd

Spec == Init /\ [][Next]_vars

\* ------------------------------------------------------------------------
\* Properties
\* ------------------------------------------------------------------------
Act == ActiveAxis(overflow)
SetupDone == phase \notin {"attach", "setup"}
ScrollRan == last.op = "scroll" /\ ~panicked /\ Act # "none"
NoOverflow == Act # "none" /\ scene.content[Act] <= scene.size[Act]
Interior(off) == FLt(I(0), off) /\ FLt(off, ScrollLength(scene, Act))
MarginInterior(m) ==
    FLt(I(0), px(m)) /\ FLt(px(m), FMul(scene.isf, TrackScrollLength(scene, thumbC, Act)))

\* C1: immediately after every run of scroll the offset along the active axis
\* is within [0, content - viewport], and is 0 when the content does not
\* overflow.
C1_OffsetClampedAfterScroll ==
    ScrollRan =>
        IF FLe(ScrollLength(scene, Act), I(0)) THEN offset[Act] = I(0)
        ELSE FLe(I(0), offset[Act]) /\ FLe(offset[Act], ScrollLength(scene, Act))

\* C2: when the content does not overflow, a run of scroll from offset 0
\* leaves the offset at 0 and the thumb margin as it was.
C2_NoOverflowScrollIsNoOp ==
    (ScrollRan /\ NoOverflow /\ last.preOff = I(0)) =>
        (offset[Act] = I(0) /\ thumb.margin[Act] = last.preMar)

\* C3: from offset 0, a run of scroll with a delta that decreases the offset
\* (a positive delta) leaves the offset at 0 and the thumb margin at 0.
C3_IdempotentAtZero ==
    (ScrollRan /\ last.preOff = I(0) /\ FGt(last.delta, I(0))) =>
        (offset[Act] = I(0) /\ thumb.margin[Act] = ValZERO)

\* two consecutive runs of scroll with deltas d and -d, the offset strictly
\* interior before, between and after
RoundTripCase ==
    /\ ScrollRan
    /\ Len(trail) = 2
    /\ trail[1].delta # I(0)
    /\ trail[2].delta = FNeg(trail[1].delta)
    /\ Interior(trail[1].preOff)
    /\ Interior(trail[2].preOff)
    /\ Interior(offset[Act])
RoundTripRestored ==
    offset[Act] = trail[1].preOff /\ thumb.margin[Act] = trail[1].preMar

\* C4 as stated: scroll(d) then scroll(-d) with the offset strictly interior
\* throughout restores the offset and the thumb margin.
C4_RoundTrip == RoundTripCase => RoundTripRestored

\* C4 as amended: the same, when the thumb margin is strictly inside
\* (0, margin_max) throughout as well.
C4_RoundTripThumbInterior ==
    (/\ RoundTripCase
     /\ MarginInterior(trail[1].preMar)
     /\ MarginInterior(trail[2].preMar)
     /\ MarginInterior(thumb.margin[Act])) => RoundTripRestored
C4_Witness ==
    /\ RoundTripCase
    /\ MarginInterior(trail[1].preMar)
    /\ MarginInterior(trail[2].preMar)
    /\ RoundTripRestored

\* Scenario A: viewport 100, content 400, draggable track 300, offset 0 and
\* thumb margin 0 when scroll ran
ScenarioA ==
    /\ last.op = "scroll"
    /\ ~panicked
    /\ Act = "y"
    /\ scene.size.y = 100
    /\ scene.content.y = 400
    /\ TrackScrollLength(scene, thumbC, "y") = I(300)
    /\ last.preOff = I(0)
    /\ last.preMar = ValZERO

\* C5 as stated: in Scenario A the offset is 50 after scroll(+50).
C5_ScenarioA_Plus50 == (ScenarioA /\ last.delta = I(50)) => offset.y = I(50)

\* C5 as amended: in Scenario A the offset is 50 after scroll(-50); a
\* positive delta decreases the offset.
C5_ScenarioA_Minus50 == (ScenarioA /\ last.delta = I(-50)) => offset.y = I(50)
C5_Witness == ScenarioA /\ last.delta = I(-50) /\ offset.y = I(50)

ClickBefore(pos, m) ==
    FLt(FMul(pos[Act], I(scene.track[Act])),
        FAdd(I(scene.blo[Act]), FDiv(px(m), scene.isf)))
ClickAfter(pos, m) ==
    FGt(FMul(pos[Act], I(scene.track[Act])),
        FAdd(FAdd(I(scene.blo[Act]), FDiv(px(m), scene.isf)), thumbC[Act]))

\* C7: a click on the track outside the span of the thumb queues exactly one
\* run of scroll, which increases the offset when the click is after the
\* thumb and decreases it when the click is before the thumb.
C7_TrackClickPagesTowardsClick ==
    /\ (/\ last.op = "click" /\ ~panicked /\ Act # "none"
        /\ last.target = "track" /\ last.pos.has
        /\ (ClickBefore(last.pos, thumb.margin[Act]) \/ ClickAfter(last.pos, thumb.margin[Act])))
       => last.issued = 1
    /\ (ScrollRan /\ last.src = "click" /\ last.target = "track") =>
        /\ ClickAfter(last.pos, last.preMar) => FGt(offset[Act], last.preOff)
        /\ ClickBefore(last.pos, last.preMar) => FLt(offset[Act], last.preOff)

\* setup has just completed: every deferred setup command has run
SetupComplete == phase = "layout" /\ attached.mode # "none"

\* C8: a region with horizontal overflow only when the scrollbar is attached
\* still has horizontal overflow only once setup has completed, and the thumb
\* has the horizontal layout.
C8_HorizontalKept ==
    (/\ SetupComplete
     /\ attached.region = "node"
     /\ attached.overflow = [x |-> "Scroll", y |-> "Visible"]) =>
        (overflow = [x |-> "Scroll", y |-> "Visible"] /\ thumb.axis = "Horizontal")

\* C9: a region (a node) with no scrolling overflow axis when the scrollbar
\* is attached has, once setup has completed, overflow.y = Scroll, a thumb
\* with the vertical layout and handlers that use the y axis.
C9_DefaultVertical ==
    (/\ SetupComplete
     /\ attached.region = "node"
     /\ attached.overflow = [x |-> "Visible", y |-> "Visible"]) =>
        (overflow.y = "Scroll" /\ thumb.axis = "Vertical" /\ Act = "y")
C9_Witness ==
    /\ SetupComplete
    /\ attached.region = "node"
    /\ attached.overflow = [x |-> "Visible", y |-> "Visible"]
    /\ thumb.spawned
    /\ overflow.y = "Scroll"

\* C10: after setup the axis the handlers and the per-frame systems derive
\* from the overflow of the region is the axis the thumb was spawned with.
C10_AxisFixed ==
    (SetupDone /\ thumb.spawned) =>
        /\ thumb.axis = "Vertical" <=> Act = "y"
        /\ thumb.axis = "Horizontal" <=> Act = "x"

\* ------------------------------------------------------------------------
\* Despawns and the relationship
\* ------------------------------------------------------------------------
NoneOfTheThreeExists == ~RegionAlive /\ ~BarAlive /\ ~thumb.spawned

\* C11: once the despawn of a region has completed, neither the region nor
\* its scrollbar nor the thumb of that scrollbar exists.
C11_RegionDespawnCascades == last.op = "despawn_region" => NoneOfTheThreeExists
C11_Witness == last.op = "despawn_region" /\ last.issued = 3 /\ NoneOfTheThreeExists

\* C12: once the despawn of a scrollbar has completed, the region it was
\* paired with does not exist either.
C12_ScrollbarDespawnCascades ==
    (last.op = "despawn_scrollbar" /\ last.src = "paired") => ~RegionAlive

\* the region's Scrollable names an existing Scrollbar whose target is the
\* region, and the Scrollbar's target is a region whose Scrollable names it
Mutual ==
    /\ hasScrollable => (RegionAlive /\ ents.bar = "bound")
    /\ ents.bar = "bound" => (RegionAlive /\ hasScrollable)

\* C13 as stated: the relation is mutual in every reachable state.
C13_MutualAlways == Mutual

\* C13 as amended: the relation is mutual in every state in which the
\* deferred commands of the setup are not pending.
C13_MutualOutsideSetup == phase # "setup" => Mutual
C13_Witness ==
    /\ phase = "input"
    /\ hasScrollable
    /\ ents = [region |-> "node", bar |-> "bound"]
    /\ thumb.spawned

\* ------------------------------------------------------------------------
\* The thumb after an update
\* ------------------------------------------------------------------------
\* the per-frame system has just run for the pair with a changed ComputedNode
GeometryUpdateRan ==
    /\ last.op = "update_scroll_position_and_thumb"
    /\ last.issued = 1
    /\ hasScrollable
    /\ thumb.spawned
    /\ Act # "none"

\* C14: right after a per-frame update that saw the geometry of the region
\* changed, the size of the thumb along the active axis is
\* viewport / content * 100 percent of the track.
C14_ThumbLengthProportional ==
    GeometryUpdateRan =>
        thumb.size[Act] = Percent(F(100 * scene.size[Act], scene.content[Act]))
C14_Witness ==
    GeometryUpdateRan /\ scene = SceneA /\ thumb.size.y = Percent(I(25))

\* the per-frame position update has just run for the pair
PositionUpdateRan ==
    /\ last.op = "update_scroll_and_thumb_positions"
    /\ ~panicked
    /\ hasScrollable
    /\ thumb.spawned
    /\ Act # "none"

\* the length the thumb's Node has now, in device pixels of the track
CurrentThumbLength == ThumbComputed(thumb.size[Act], scene, Act)

\* track_length - track_borders - thumb_length, in the logical pixels of the
\* thumb margin
DraggableTrackLength ==
    FMul(scene.isf,
         FSub(I(scene.track[Act] - scene.blo[Act] - scene.bhi[Act]), CurrentThumbLength))

\* C15: after every run of scroll and every per-frame position update the
\* thumb margin is within [0, track_length - track_borders - thumb_length]
\* for the length the thumb has now.
C15_ThumbWithinTrack ==
    (ScrollRan \/ PositionUpdateRan) =>
        /\ FLe(I(0), px(thumb.margin[Act]))
        /\ FLe(px(thumb.margin[Act]), DraggableTrackLength)

\* (scroll_offset / (content - viewport)) * draggable track length, with the
\* lengths scroll itself uses
MarginOfOffset(off) ==
    FMul(FDiv(off, ScrollLength(scene, Act)),
         FMul(scene.isf, TrackScrollLength(scene, thumbC, Act)))

\* C16: right after every run of scroll on overflowing content the thumb
\* margin is the position of the offset just written, also when the delta
\* pushed the offset past a bound.
C16_ThumbTracksOffset ==
    (ScrollRan /\ FGt(ScrollLength(scene, Act), I(0))) =>
        px(thumb.margin[Act]) = MarginOfOffset(offset[Act])

\* ------------------------------------------------------------------------
\* Drag and wheel
\* ------------------------------------------------------------------------
\* scroll has just run for a drag of the thumb in the positive direction of
\* the active axis
PositiveDragRan == ScrollRan /\ last.src = "drag" /\ FGt(last.pos[Act], I(0))
DragNeverDecreases ==
    /\ FLe(last.preOff, offset[Act])
    /\ FLe(px(last.preMar), px(thumb.margin[Act]))

\* C17: a drag in the positive direction never decreases the offset or the
\* thumb margin, and strictly increases both when the offset was interior.
C17_DragMovesForward ==
    PositiveDragRan =>
        /\ DragNeverDecreases
        /\ Interior(last.preOff) =>
                /\ FLt(last.preOff, offset[Act])
                /\ FLt(px(last.preMar), px(thumb.margin[Act]))

\* raw_delta * wheel_scale for a pixel event, raw_delta * line_height_px *
\* wheel_scale for a line event
WheelScroll(unit, raw) ==
    FMul(I(ScrollScaleDEFAULT),
         IF unit = "Line" THEN FMul(raw, LineHeightPx(lineHeight)) ELSE raw)

\* C18: a wheel event at the region queues exactly one run of scroll, with
\* the scaled delta of the event, and no second run of scroll comes from the
\* same event.
C18_OneScrollPerWheel ==
    last.op = "wheel" =>
        /\ last.issued = 1
        /\ Len(cmds) = 1
        /\ cmds[1].delta = WheelScroll(last.unit, last.pos.y)

\* ------------------------------------------------------------------------
\* Missing entities
\* ------------------------------------------------------------------------
\* C19: a run of scroll that does not find the region's Scrollable or the
\* thumb of its scrollbar changes neither the offset nor the thumb and does
\* not panic.
C19_MissingEntityDropsEvent ==
    (last.op = "scroll" /\ (~hasScrollable \/ ~thumb.spawned)) =>
        /\ ~panicked
        /\ Act # "none" => offset[Act] = last.preOff

\* the setup command has just run without a target, without a Node on the
\* target, or without its scrollbar
SetupRanWithoutEntity ==
    /\ last.op = "spawn_thumb_and_observers"
    /\ (ents.region # "node" \/ ~BarAlive)

\* C20: a setup command that finds no target, no Node on the target or no
\* scrollbar does not panic, spawns no thumb and registers neither the drag
\* observer nor the click observer.
C20_SetupAbortsQuietly ==
    SetupRanWithoutEntity =>
        /\ ~panicked
        /\ ~thumb.spawned
        /\ "scroll_on_drag" \notin observers
        /\ "scroll_on_click" \notin observers
C20_Witness ==
    /\ SetupRanWithoutEntity
    /\ ents.region = "bare"
    /\ ~thumb.spawned
    /\ ~panicked

\* ------------------------------------------------------------------------
\* The per-frame pass
\* ------------------------------------------------------------------------
\* the per-frame pass of the current frame is over: the system has run and
\* so has the command it queued, if any
PassOver ==
    /\ last.op \in {"update_scroll_position_and_thumb", "update_scroll_and_thumb_positions"}
    /\ cmds = << >>

\* the region, its scrollbar and the thumb are all there
PairIntact == hasScrollable /\ thumb.spawned /\ Act # "none"

\* the host wrote the offset of a region with overflowing content, and the
\* per-frame pass that followed is over
HostWritePassOver ==
    /\ PassOver
    /\ hist.pass = "host"
    /\ PairIntact
    /\ FGt(ScrollLength(scene, Act), I(0))

\* C21: once the per-frame pass that follows a host write to the offset is
\* over, the offset is within [0, content - viewport] and the thumb margin
\* is offset / (content - viewport) * draggable track length.
C21_HostWriteObserved ==
    HostWritePassOver =>
        /\ FLe(I(0), offset[Act])
        /\ FLe(offset[Act], ScrollLength(scene, Act))
        /\ px(thumb.margin[Act]) = MarginOfOffset(offset[Act])
C21_Witness ==
    /\ HostWritePassOver
    /\ last.op = "update_scroll_and_thumb_positions"
    /\ last.preOff = I(-50)
    /\ offset[Act] = I(0)
    /\ thumb.margin[Act] = Px(I(0))

\* the per-frame position update has run, or has panicked, for a region whose
\* content does not overflow the viewport
NoOverflowPositionUpdate ==
    /\ last.op = "update_scroll_and_thumb_positions"
    /\ PairIntact
    /\ scene.content[Act] <= scene.size[Act]

\* C22: the per-frame position update of a region whose content is no larger
\* than its viewport, strictly smaller included, does not panic and leaves
\* the offset 0 and the thumb margin 0.
C22_NoOverflowUpdateCompletes ==
    NoOverflowPositionUpdate =>
        /\ ~panicked
        /\ offset[Act] = I(0)
        /\ thumb.margin[Act] = ValZERO

\* the per-frame pass of a frame is over whose layout left the geometry of
\* the region as the frame before had it
StablePassOver ==
    /\ PassOver
    /\ last.issued = 0
    /\ PairIntact

\* the margin that belongs to the offset for the length the thumb has now
ConsistentMargin ==
    PositionedMargin(offset[Act], scene,
                     [a \in Axes |-> ThumbComputed(thumb.size[a], scene, a)], Act)

\* C23: one frame after the frame that saw the geometry change, and in every
\* later frame without a further change, the thumb length is that of the
\* geometry and the thumb margin is computed from the current offset and
\* from that length, not from the length the thumb had before.
C23_ConsistentAfterOneFrame ==
    StablePassOver =>
        /\ thumb.size[Act] = ThumbLength(scene, Act)
        /\ thumbC[Act] = ThumbComputed(thumb.size[Act], scene, Act)
        /\ thumb.margin[Act] = ConsistentMargin
C23_Witness ==
    /\ StablePassOver
    /\ scene = SceneHalf
    /\ hist.pass = "none"
    /\ offset[Act] = I(50)
    /\ last.preMar = Px(I(150))
    /\ thumb.margin[Act] = Px(I(100))

\* a step of the per-frame system in a pass where the geometry of the region
\* had not changed
OffsetOnlyPassStep ==
    /\ phase = "post"
    /\ cmds = << >>
    /\ ~cnodeChanged
    /\ last'.op = "update_scroll_position_and_thumb"

\* C24: a step of the per-frame system that did not see the geometry changed
\* leaves the size of the thumb's Node as it was and does not write it; the
\* size of a thumb changes only in a pass that saw the geometry changed.
C24_LengthWrittenOnGeometryChangeOnly ==
    [][/\ OffsetOnlyPassStep => (thumb'.size = thumb.size /\ last'.src # "length_written")
       /\ (thumb.spawned /\ thumb'.spawned /\ thumb'.size # thumb.size) =>
              (phase = "post" /\ cnodeChanged)]_vars
C24_Witness ==
    /\ last.op = "update_scroll_position_and_thumb"
    /\ last.issued = 0
    /\ last.src = "none"
    /\ PairIntact
    /\ hist.pass = "event"
    /\ cmds # << >>
    /\ thumb.size[Act] = Percent(I(25))

\* the per-frame system has just run in a frame that is at least the second
\* in a row without input event, host write or geometry change
QuietPass ==
    /\ last.op = "update_scroll_position_and_thumb"
    /\ hist.quiet = MaxQuietFrames
    /\ PairIntact

\* C25: from the second frame in a row without input event, host write and
\* geometry change, the per-frame system does not select the region: it
\* queues no position update.
C25_QuietPassSelectsNothing ==
    QuietPass => cmds = << >>

\* ------------------------------------------------------------------------
\* Units of a page jump
\* ------------------------------------------------------------------------
\* the viewport extent in the logical pixels ScrollPosition is kept in
ViewportExtent == FMul(scene.isf, I(scene.size[Act]))

\* C26: the run of scroll that a click on the track queued changes the
\* offset by one viewport extent in logical pixels, whatever the scale
\* factor.
C26_ClickPagesOneViewport ==
    (ScrollRan /\ last.src = "click" /\ PairIntact) =>
        FAbs(FSub(offset[Act], last.preOff)) = ViewportExtent

\* ------------------------------------------------------------------------
\* The per-frame system over several regions
\* ------------------------------------------------------------------------
\* update_scroll_position_and_thumb iterates the regions its query selects,
\* in the order of the query, and leaves the loop with `?` at the first
\* region whose scrollbar has no Children.  A second specification follows
\* one such pass: every region of Regions is selected, with its ComputedNode
\* changed or only its ScrollPosition, and with or without a thumb under its
\* scrollbar; the error the system returns goes to the error handler of the
\* host, which panics (the default) or logs.
Regions == 1..MaxRegions
RegionItems == [geometry : BOOLEAN, children : BOOLEAN]
Handlers == {"panic", "warn"}
Perms(S) ==
    {f \in [1..Cardinality(S) -> S] : \A i, j \in 1..Cardinality(S) : f[i] = f[j] => i = j}

\* the variables of the single pair
pairVars == <<overflow, scrollSpeed, lineHeight, hasScrollable, thumb, observers, cmds,
              offset, scene, thumbC, cnodeChanged, posChanged, phase, events, panicked,
              attached, trail, ents, hist, last>>

\* the single pair is not built
DormantPair ==
    /\ ents = [region |-> "none", bar |-> "none"]
    /\ overflow = [x |-> "Visible", y |-> "Visible"]
    /\ scrollSpeed = NoScrollSpeed
    /\ lineHeight = NoLineHeight
    /\ hasScrollable = FALSE
    /\ thumb = NoThumb
    /\ observers = {}
    /\ cmds = << >>
    /\ offset = XY(I(0), I(0))
    /\ scene = Scene0
    /\ thumbC = XY(I(0), I(0))
    /\ cnodeChanged = TRUE
    /\ posChanged = TRUE
    /\ phase = "attach"
    /\ events = 0
    /\ panicked = FALSE
    /\ attached = NotAttached
    /\ trail = << >>
    /\ hist = NoHist
    /\ last = NoStep

PassInit ==
    /\ DormantPair
    /\ \E rs \in [Regions -> RegionItems], o \in Perms(Regions), h \in Handlers :
        multi = [NoPass EXCEPT !.regs = rs, !.order = o, !.at = 1, !.handler = h,
                               !.result = "running"]

\* one turn of the `for` loop: `q_children.get(scrollable.scrollbar())?[0]`
\* returns the error from the system, otherwise the position update is
\* queued and the length written if the ComputedNode changed
VisitRegion ==
    /\ multi.result = "running"
    /\ multi.at <= Len(multi.order)
    /\ LET r == multi.order[multi.at]
           item == multi.regs[r]
       IN multi' = IF ~item.children
                   THEN [multi EXCEPT !.result = IF multi.handler = "panic"
                                                 THEN "panicked" ELSE "err"]
                   ELSE [multi EXCEPT !.queued = Append(@, r),
                                      !.written = IF WritesLength(item.geometry)
                                                  THEN @ \cup {r} ELSE @,
                                      !.at = @ + 1]
    /\ UNCHANGED pairVars

\* the loop is through: Ok(())
ReturnOk ==
    /\ multi.result = "running"
    /\ multi.at > Len(multi.order)
    /\ multi' = [multi EXCEPT !.result = "ok"]
    /\ UNCHANGED pairVars

\* a queued update_scroll_and_thumb_positions runs for its region
RunQueued ==
    /\ multi.result \in {"ok", "err"}
    /\ multi.queued # << >>
    /\ multi' = [multi EXCEPT !.queued = Tail(@), !.positioned = @ \cup {Head(multi.queued)}]
    /\ UNCHANGED pairVars

PassNext ==
    \/ VisitRegion
    \/ ReturnOk
    \/ RunQueued

PassSpec == PassInit /\ [][PassNext]_vars

\* the pass and the commands it queued are over
PassDone ==
    \/ multi.result = "panicked"
    \/ multi.result \in {"ok", "err"} /\ multi.queued = << >>

\* C27: when the pass is over, every selected region whose scrollbar has a
\* thumb has had its position updated, and its length if its geometry had
\* changed, whatever the lookup did for the other regions.
C27_LookupFailureIsLocal ==
    PassDone =>
        \A r \in DOMAIN multi.regs :
            multi.regs[r].children =>
                /\ r \in multi.positioned
                /\ multi.regs[r].geometry => r \in multi.written

\* ------------------------------------------------------------------------
\* The unit of the thumb margin
\* ------------------------------------------------------------------------
\* C28: the margin of the thumb is a length in pixels on both axes in every
\* reachable state, whatever ran before: setup, scroll and the per-frame
\* position update write nothing else, so px() does not panic in scroll nor
\* in the click handler.
C28_MarginIsPx ==
    thumb.spawned =>
        /\ \A a \in Axes : ~PxPanics(thumb.margin[a])
        /\ last.op \in {"scroll", "click"} => ~panicked
C28_Witness ==
    /\ PairIntact
    /\ last.op = "scroll"
    /\ last.src = "click"
    /\ last.preMar = Px(I(100))
    /\ thumb.margin[Act].u = "Px"
    /\ FGt(thumb.margin[Act].v, I(0))
    /\ ~panicked

====
